---- MODULE Spec2Model ----
(***************************************************************************)
(* Model of pysim.Simulink (src/pysim/pysim.py): one session object that   *)
(* drives one MATLAB engine.  The engine is an external collaborator: the  *)
(* model records every call the session makes on it (an event), lets each  *)
(* call succeed or fail, and keeps a table of the engines that were        *)
(* started.  Python attribute storage is modelled by the set of names in   *)
(* the instance dictionary, so that hasattr() and the name mangling of     *)
(* `self.__x` inside the class body are computed as the interpreter        *)
(* computes them.                                                          *)
(***************************************************************************)
EXTENDS Integers, Sequences, FiniteSets, TLC

VARIABLES obj, attrs, path, name, outvars, engine, engines, inBlock, last

vars == <<obj, attrs, path, name, outvars, engine, engines, inBlock, last>>

(***************************************************************************)
(* Bounds                                                                  *)
(***************************************************************************)
\* engines one session may start before Connect is no longer offered
MaxEngines == 2
\* length of the list of output names handed to the constructor
MaxLen == 2

(***************************************************************************)
(* Input domains                                                           *)
(***************************************************************************)
\* the names a caller may ask for, in the order np.unique sorts them
NameOrder == <<"e", "tout", "y">>

Range(s) == {s[i] : i \in 1..Len(s)}

Names == Range(NameOrder)

SeqsUpTo(S, n) == UNION {[1..k -> S] : k \in 0..n}

\* a path is its parent directory, the stem of its last component, and
\* the suffix of its last component
KneePath == [parent |-> "models", stem |-> "knee", suffix |-> ".slx"]

MissingPath == [parent |-> "models", stem |-> "ghost", suffix |-> ".slx"]

OtherMissingPath == [parent |-> "nowhere", stem |-> "knee", suffix |-> ""]

Paths == {KneePath, MissingPath, OtherMissingPath}

\* the entries that exist on disk
FileSystem == {KneePath}

NoPath == [parent |-> "", stem |-> "", suffix |-> ""]

\* parameter values: a str, a float (given by its str() text) or an int
ParamKp == [key |-> "Kp", type |-> "float", text |-> "1.5", int |-> 0]

ParamMode == [key |-> "mode", type |-> "str", text |-> "auto", int |-> 0]

ParamN == [key |-> "N", type |-> "int", text |-> "", int |-> 2]

\* dicts, as the sequence of their items in insertion order
ParamSets == {<< >>, <<ParamKp, ParamMode>>, <<ParamMode, ParamKp>>, <<ParamN>>}

\* (start, stop) pairs handed to run; <<0, 30>> is the default
RunTimes == {<<0, 30>>, <<5, 10>>}

\* what the engine does with one output name: the bind command fails, the
\* bind succeeds and the read or conversion fails, or both succeed
Outcomes == {"ok", "bindfail", "readfail"}

(***************************************************************************)
(* Python object model                                                     *)
(***************************************************************************)
\* `self.__x` written inside class Simulink names the attribute
\* _Simulink__x; a string literal handed to hasattr() is not rewritten
Mangle(n) == "_Simulink" \o n

HasAttr(a, n) == n \in a

PathExistsAlways(p) == TRUE

\* Path.exists()
PathExists(p) == p \in FileSystem

\* np.unique(xs).tolist(): the distinct elements of xs, sorted
Unique(xs) == SelectSeq(NameOrder, LAMBDA n : n \in Range(xs))

OutvarsNoTout(supplied) == Unique(supplied)

\* np.unique(outvars + ['tout']).tolist()
NormalizeOutvars(supplied) == Unique(supplied \o <<"tout">>)

(***************************************************************************)
(* Engine layer                                                            *)
(***************************************************************************)
\* one call made on the engine layer; eng = 0 when no engine exists yet
Event(op, eng, arg, ok) == [op |-> op, eng |-> eng, arg |-> arg, ok |-> ok]

\* an engine process as start_matlab() returns it: running, with nothing
\* on its search path, no workspace variable bound and no model loaded
NewEngine == [running |-> TRUE, quits |-> 0, loads |-> 0, searchPath |-> "",
              modelVar |-> "", loaded |-> ""]

\* the effect on an engine of a call that succeeds; effect says what the
\* call is for, arg is its argument
ApplyCall(e, effect, arg) ==
    CASE effect = "path"  -> [e EXCEPT !.searchPath = arg]
      [] effect = "model" -> [e EXCEPT !.modelVar = arg]
      [] effect = "load"  -> [e EXCEPT !.loaded = arg, !.loads = @ + 1]
      [] effect = "close" -> [e EXCEPT !.loaded = ""]
      [] effect = "quit"  -> [e EXCEPT !.running = FALSE, !.quits = @ + 1]
      [] OTHER            -> e

RECURSIVE SubmitSwallowing(_, _, _, _)
SubmitSwallowing(engs, id, calls, fail) ==
    IF calls = << >>
    THEN [engines |-> engs, events |-> << >>, raised |-> "none"]
    ELSE LET op  == Head(calls)[1]
             arg == Head(calls)[2]
             eff == Head(calls)[3]
             rest == SubmitSwallowing(
                        IF op = fail THEN engs
                        ELSE [engs EXCEPT ![id] = ApplyCall(@, eff, arg)],
                        id, Tail(calls), fail)
         IN [rest EXCEPT !.events = <<Event(op, id, arg, op # fail)>> \o @]

\* make the calls <<op, arg, effect>> one after the other on engine id;
\* the call whose op is fail raises, which ends the sequence
RECURSIVE Submit(_, _, _, _)
Submit(engs, id, calls, fail) ==
    IF calls = << >>
    THEN [engines |-> engs, events |-> << >>, raised |-> "none"]
    ELSE LET op  == Head(calls)[1]
             arg == Head(calls)[2]
             eff == Head(calls)[3]
         IN IF op = fail
            THEN [engines |-> engs,
                  events |-> <<Event(op, id, arg, FALSE)>>,
                  raised |-> "EngineError"]
            ELSE LET rest == Submit([engs EXCEPT ![id] = ApplyCall(@, eff, arg)],
                                    id, Tail(calls), fail)
                 IN [rest EXCEPT !.events = <<Event(op, id, arg, TRUE)>> \o @]

(***************************************************************************)
(* Method bodies                                                           *)
(***************************************************************************)
ConnectGuardNotNegated(a) == HasAttr(a, "__engine")

\* the test of connect(): hasattr is given the unmangled literal
ConnectGuard(a) == ~HasAttr(a, "__engine")

DisconnectGuardAlways(a) == TRUE

\* the test of disconnect()
DisconnectGuard(a) == HasAttr(a, "__engine")

\* the property `eng` returns self.__engine, raising AttributeError when
\* the instance has no such attribute
EngReadable(a) == HasAttr(a, Mangle("__engine"))

\* f"model = '{self.name}';"
ModelCmd(nm) == "model = '" \o nm \o "';"

ConnectBodyLoadFirst(a, eng, engs, p, nm, fail) ==
    IF ~HasAttr(a, "__engine")
    THEN IF fail = "start_matlab"
         THEN [attrs |-> a, engine |-> eng, engines |-> engs,
               events |-> <<Event("start_matlab", 0, "", FALSE)>>,
               raised |-> "EngineError"]
         ELSE LET id == Len(engs) + 1
                  r  == Submit(Append(engs, NewEngine), id,
                               << <<"addpath", p.parent, "path">>,
                                  <<"load_system", nm, "load">>,
                                  <<"eval", ModelCmd(nm), "model">> >>, fail)
              IN [attrs |-> a \cup {Mangle("__engine")}, engine |-> id,
                  engines |-> r.engines,
                  events |-> <<Event("start_matlab", id, "", TRUE)>> \o r.events,
                  raised |-> r.raised]
    ELSE [attrs |-> a, engine |-> eng, engines |-> engs,
          events |-> << >>, raised |-> "none"]

\* connect(): a, eng, engs are the instance attributes, the handle and the
\* engine table before the call; fail names the engine call that raises
ConnectBody(a, eng, engs, p, nm, fail) ==
    IF ConnectGuard(a)
    THEN IF fail = "start_matlab"
         THEN [attrs |-> a, engine |-> eng, engines |-> engs,
               events |-> <<Event("start_matlab", 0, "", FALSE)>>,
               raised |-> "EngineError"]
         ELSE LET id == Len(engs) + 1
                  r  == Submit(Append(engs, NewEngine), id,
                               << <<"addpath", p.parent, "path">>,
                                  <<"eval", ModelCmd(nm), "model">>,
                                  <<"load_system", nm, "load">> >>, fail)
              IN [attrs |-> a \cup {Mangle("__engine")}, engine |-> id,
                  engines |-> r.engines,
                  events |-> <<Event("start_matlab", id, "", TRUE)>> \o r.events,
                  raised |-> r.raised]
    ELSE [attrs |-> a, engine |-> eng, engines |-> engs,
          events |-> << >>, raised |-> "none"]

\* disconnect()
DisconnectBody(a, eng, engs, nm, fail) ==
    IF DisconnectGuard(a)
    THEN IF ~EngReadable(a)
         THEN [attrs |-> a, engine |-> eng, engines |-> engs,
               events |-> << >>, raised |-> "AttributeError"]
         ELSE LET r == Submit(engs, eng,
                              << <<"close_system", nm, "close">>,
                                 <<"quit", "", "quit">> >>, fail)
              IN IF r.raised = "none"
                 THEN [attrs |-> a \ {Mangle("__engine")}, engine |-> 0,
                       engines |-> r.engines, events |-> r.events,
                       raised |-> "none"]
                 ELSE [attrs |-> a, engine |-> eng, engines |-> r.engines,
                       events |-> r.events, raised |-> r.raised]
    ELSE [attrs |-> a, engine |-> eng, engines |-> engs,
          events |-> << >>, raised |-> "none"]

\* f"{value}" for a number, f"'{value}'" for a str
FormatValueUnquoted(v) ==
    IF v.type = "int" THEN ToString(v.int) ELSE v.text

FormatValue(v) ==
    CASE v.type = "str" -> "'" \o v.text \o "'"
      [] v.type = "int" -> ToString(v.int)
      [] OTHER          -> v.text

\* the loop of set_params(): cmd += f"{key} = {value}; "
RECURSIVE ParamsCmd(_)
ParamsCmd(params) ==
    IF params = << >> THEN ""
    ELSE Head(params).key \o " = " \o FormatValue(Head(params)) \o "; "
         \o ParamsCmd(Tail(params))

RunCmdSwapped(start, stop) ==
    "\n        set_param(model, 'StartTime', '" \o ToString(stop)
    \o "', 'StopTime', '" \o ToString(start)
    \o "');\n        out = sim(model);\n        "

\* the command of run()
RunCmd(start, stop) ==
    "\n        set_param(model, 'StartTime', '" \o ToString(start)
    \o "', 'StopTime', '" \o ToString(stop)
    \o "');\n        out = sim(model);\n        "

\* f"{var} = out.{var};"
BindCmd(var) == var \o " = out." \o var \o ";"

RECURSIVE ReadOutputsStopAtFailure(_, _, _)
ReadOutputsStopAtFailure(vs, id, outcome) ==
    IF vs = << >> THEN [events |-> << >>, keys |-> << >>]
    ELSE LET var  == Head(vs)
             bind == Event("eval", id, BindCmd(var), outcome[var] # "bindfail")
             read == Event("workspace", id, var, outcome[var] = "ok")
         IN IF outcome[var] = "ok"
            THEN LET rest == ReadOutputsStopAtFailure(Tail(vs), id, outcome)
                 IN [events |-> <<bind, read>> \o rest.events,
                     keys |-> <<var>> \o rest.keys]
            ELSE [events |-> IF outcome[var] = "bindfail" THEN <<bind>>
                             ELSE <<bind, read>>,
                  keys |-> << >>]

\* the loop of run() over self.outvars: bind, read and convert each name,
\* a failure of either step skipping to the next name
RECURSIVE ReadOutputs(_, _, _)
ReadOutputs(vs, id, outcome) ==
    IF vs = << >> THEN [events |-> << >>, keys |-> << >>]
    ELSE LET var  == Head(vs)
             bind == Event("eval", id, BindCmd(var), outcome[var] # "bindfail")
             read == Event("workspace", id, var, outcome[var] = "ok")
             rest == ReadOutputs(Tail(vs), id, outcome)
         IN [events |-> (IF outcome[var] = "bindfail" THEN <<bind>>
                         ELSE <<bind, read>>) \o rest.events,
             keys |-> (IF outcome[var] = "ok" THEN <<var>> ELSE << >>)
                      \o rest.keys]

(***************************************************************************)
(* State machine                                                           *)
(***************************************************************************)
\* the record of the most recent call on the session: what was called with
\* which arguments, the engine calls it made, and how it ended
NoCall == [op |-> "none", raised |-> "none", ret |-> "none",
           events |-> << >>, keys |-> << >>, pathArg |-> NoPath,
           supplied |-> << >>, connectArg |-> FALSE, params |-> << >>,
           start |-> 0, stop |-> 0]

Init ==
    /\ obj = "none"
    /\ attrs = {}
    /\ path = NoPath
    /\ name = ""
    /\ outvars = << >>
    /\ engine = 0
    /\ engines = << >>
    /\ inBlock = FALSE
    /\ last = NoCall

ConnectFailures == {"none", "start_matlab", "addpath", "eval", "load_system"}

DisconnectFailures == {"none", "close_system", "quit"}

\* Simulink(path, outvars, connect)
Construct(p, supplied, connect, fail) ==
    /\ obj = "none"
    /\ LET call == [NoCall EXCEPT !.op = "construct", !.pathArg = p,
                                  !.supplied = supplied,
                                  !.connectArg = connect]
       IN IF ~PathExists(p)
          THEN /\ obj' = "broken"
               /\ attrs' = {Mangle("__path")}
               /\ path' = p
               /\ last' = [call EXCEPT !.raised = "FileNotFoundError",
                                       !.ret = "raise"]
               /\ UNCHANGED <<name, outvars, engine, engines>>
          ELSE LET a == {Mangle("__path"), Mangle("__name"), "outvars"}
                   r == IF connect
                        THEN ConnectBody(a, 0, << >>, p, p.stem, fail)
                        ELSE [attrs |-> a, engine |-> 0, engines |-> << >>,
                              events |-> << >>, raised |-> "none"]
               IN /\ path' = p
                  /\ name' = p.stem
                  /\ outvars' = NormalizeOutvars(supplied)
                  /\ attrs' = r.attrs
                  /\ engine' = r.engine
                  /\ engines' = r.engines
                  /\ obj' = IF r.raised = "none" THEN "live" ELSE "broken"
                  /\ last' = [call EXCEPT
                                !.events = r.events, !.raised = r.raised,
                                !.ret = IF r.raised = "none" THEN "instance"
                                        ELSE "raise"]
    /\ UNCHANGED inBlock

\* sim.connect()
Connect(fail) ==
    /\ obj = "live"
    /\ ConnectGuard(attrs) => Len(engines) < MaxEngines
    /\ LET r == ConnectBody(attrs, engine, engines, path, name, fail)
       IN /\ attrs' = r.attrs
          /\ engine' = r.engine
          /\ engines' = r.engines
          /\ last' = [NoCall EXCEPT
                        !.op = "connect", !.events = r.events,
                        !.raised = r.raised,
                        !.ret = IF r.raised = "none" THEN "None" ELSE "raise"]
    /\ UNCHANGED <<obj, path, name, outvars, inBlock>>

\* sim.disconnect()
Disconnect(fail) ==
    /\ obj = "live"
    /\ LET r == DisconnectBody(attrs, engine, engines, name, fail)
       IN /\ attrs' = r.attrs
          /\ engine' = r.engine
          /\ engines' = r.engines
          /\ last' = [NoCall EXCEPT
                        !.op = "disconnect", !.events = r.events,
                        !.raised = r.raised,
                        !.ret = IF r.raised = "none" THEN "None" ELSE "raise"]
    /\ UNCHANGED <<obj, path, name, outvars, inBlock>>

\* sim.set_params(params); ok says whether the engine accepts the command
SetParams(params, ok) ==
    /\ obj = "live"
    /\ LET cmd == ParamsCmd(params)
           r   == IF EngReadable(attrs)
                  THEN Submit(engines, engine, << <<"eval", cmd, "params">> >>,
                              IF ok THEN "none" ELSE "eval")
                  ELSE [engines |-> engines, events |-> << >>,
                        raised |-> "AttributeError"]
       IN /\ engines' = r.engines
          /\ last' = [NoCall EXCEPT
                        !.op = "set_params", !.params = params,
                        !.events = r.events, !.raised = r.raised,
                        !.ret = IF r.raised = "none" THEN "None" ELSE "raise"]
    /\ UNCHANGED <<obj, attrs, path, name, outvars, engine, inBlock>>

RunKeepsResult(start, stop, simOk, outcome) ==
    /\ obj = "live"
    /\ LET call == [NoCall EXCEPT !.op = "run", !.start = start, !.stop = stop]
           r    == IF EngReadable(attrs)
                   THEN Submit(engines, engine,
                               << <<"eval", RunCmd(start, stop), "sim">> >>,
                               IF simOk THEN "none" ELSE "eval")
                   ELSE [engines |-> engines, events |-> << >>,
                         raised |-> "AttributeError"]
       IN /\ engines' = r.engines
          /\ IF r.raised # "none"
             THEN last' = [call EXCEPT !.events = r.events,
                                       !.raised = r.raised, !.ret = "raise"]
             ELSE LET out  == ReadOutputs(outvars, engine, outcome)
                      kept == SelectSeq(last.keys,
                                        LAMBDA n : n \notin Range(out.keys))
                  IN last' = [call EXCEPT !.events = r.events \o out.events,
                                          !.keys = kept \o out.keys,
                                          !.ret = "dict"]
    /\ UNCHANGED <<obj, attrs, path, name, outvars, engine, inBlock>>

\* sim.run(start, stop); simOk says whether the simulation command runs,
\* outcome what happens to the retrieval of each output name (the loop is
\* reached only when the simulation command ran)
Run(start, stop, simOk, outcome) ==
    /\ obj = "live"
    /\ LET call == [NoCall EXCEPT !.op = "run", !.start = start, !.stop = stop]
           r    == IF EngReadable(attrs)
                   THEN Submit(engines, engine,
                               << <<"eval", RunCmd(start, stop), "sim">> >>,
                               IF simOk THEN "none" ELSE "eval")
                   ELSE [engines |-> engines, events |-> << >>,
                         raised |-> "AttributeError"]
       IN /\ engines' = r.engines
          /\ IF r.raised # "none"
             THEN last' = [call EXCEPT !.events = r.events,
                                       !.raised = r.raised, !.ret = "raise"]
             ELSE LET out == ReadOutputs(outvars, engine, outcome)
                  IN last' = [call EXCEPT !.events = r.events \o out.events,
                                          !.keys = out.keys, !.ret = "dict"]
    /\ UNCHANGED <<obj, attrs, path, name, outvars, engine, inBlock>>

\* __enter__ of `with sim:`
Enter ==
    /\ obj = "live"
    /\ ~inBlock
    /\ inBlock' = TRUE
    /\ last' = [NoCall EXCEPT !.op = "enter", !.ret = "self"]
    /\ UNCHANGED <<obj, attrs, path, name, outvars, engine, engines>>

\* __exit__ of `with sim:`
Exit(fail) ==
    /\ obj = "live"
    /\ inBlock
    /\ LET r == DisconnectBody(attrs, engine, engines, name, fail)
       IN /\ attrs' = r.attrs
          /\ engine' = r.engine
          /\ engines' = r.engines
          /\ last' = [NoCall EXCEPT
                        !.op = "exit", !.events = r.events,
                        !.raised = r.raised,
                        !.ret = IF r.raised = "none" THEN "None" ELSE "raise"]
    /\ inBlock' = FALSE
    /\ UNCHANGED <<obj, path, name, outvars>>

\* __del__, run when the object is collected; it also runs on an object
\* whose constructor raised
Finalize(fail) ==
    /\ obj \in {"live", "broken"}
    /\ ~inBlock
    /\ LET r == DisconnectBody(attrs, engine, engines, name, fail)
       IN /\ attrs' = r.attrs
          /\ engine' = r.engine
          /\ engines' = r.engines
          /\ last' = [NoCall EXCEPT
                        !.op = "del", !.events = r.events,
                        !.raised = r.raised,
                        !.ret = IF r.raised = "none" THEN "None" ELSE "raise"]
    /\ obj' = "finalized"
    /\ UNCHANGED <<path, name, outvars, inBlock>>

Next ==
    \/ \E p \in Paths, supplied \in SeqsUpTo(Names, MaxLen),
          connect \in BOOLEAN, fail \in ConnectFailures :
            Construct(p, supplied, connect, fail)
    \/ \E fail \in ConnectFailures : Connect(fail)
    \/ \E fail \in DisconnectFailures : Disconnect(fail)
    \/ \E params \in ParamSets, ok \in BOOLEAN : SetParams(params, ok)
    \/ \E t \in RunTimes :
          \/ Run(t[1], t[2], FALSE, [n \in Range(outvars) |-> "ok"])
          \/ \E outcome \in [Range(outvars) -> Outcomes] :
                Run(t[1], t[2], TRUE, outcome)
    \/ Enter
    \/ \E fail \in DisconnectFailures : Exit(fail)
    \/ \E fail \in DisconnectFailures : Finalize(fail)

Spec == Init /\ [][Next]_vars

(***************************************************************************)
(* Properties                                                              *)
(***************************************************************************)
\* the session holds an engine handle
Connected == Mangle("__engine") \in attrs

CountOps(evs, op) == Cardinality({i \in 1..Len(evs) : evs[i].op = op})

Ops(evs) == [i \in 1..Len(evs) |-> evs[i].op]

AllOk(evs) == \A i \in 1..Len(evs) : evs[i].ok

\* C1: a Connect on a session that already holds a handle starts no engine
\* and loads no model
ConnectIdempotent ==
    [][(Connected /\ last'.op = "connect")
        => /\ Len(engines') = Len(engines)
           /\ CountOps(last'.events, "start_matlab") = 0
           /\ CountOps(last'.events, "load_system") = 0]_vars

\* C2: a Disconnect on a session that holds a handle, no engine call
\* failing, closes the model, then quits the engine, and releases the handle
DisconnectReleases ==
    [][(Connected /\ last'.op = "disconnect" /\ last'.raised = "none")
        => /\ Ops(last'.events) = <<"close_system", "quit">>
           /\ AllOk(last'.events)
           /\ ~Connected'
           /\ ~engines'[engine].running]_vars

ScopedRelease ==
    (obj = "finalized" /\ \A i \in DOMAIN engines : engines[i].loads = 1)
        => \A i \in DOMAIN engines :
              engines[i].quits = 1 /\ ~engines[i].running

\* C5: the constructor given a path that does not exist raises
\* FileNotFoundError before any engine call, and the finalizer of the
\* half-built object makes no engine call and raises nothing
NotFoundBeforeEngine ==
    /\ []((last.op = "construct" /\ last.pathArg \notin FileSystem)
            => /\ last.raised = "FileNotFoundError"
               /\ last.events = << >>
               /\ engines = << >>
               /\ obj = "broken")
    /\ [][(obj = "broken" /\ path \notin FileSystem /\ last'.op = "del")
            => /\ last'.events = << >>
               /\ last'.raised = "none"
               /\ engines' = << >>]_vars

NotFoundWitness ==
    /\ obj = "finalized"
    /\ path \notin FileSystem
    /\ last.op = "del"
    /\ last.raised = "none"

\* C6: outvars holds "tout" and every supplied name, nothing else, and no
\* name twice; no later call changes it
OutvarsNormalized ==
    /\ []((last.op = "construct" /\ "outvars" \in attrs)
            => /\ Range(outvars) = Range(last.supplied) \cup {"tout"}
               /\ Cardinality(Range(outvars)) = Len(outvars))
    /\ []("outvars" \in attrs
            => /\ "tout" \in Range(outvars)
               /\ Cardinality(Range(outvars)) = Len(outvars))
    /\ [][obj # "none" => outvars' = outvars]_vars

OutvarsNormalizedWitness ==
    /\ last.op = "run"
    /\ outvars = <<"e", "tout", "y">>
    /\ Connected

\* C7: the constructor on an existing path, when it returns, leaves a
\* session that holds a running engine started once with the model loaded
\* once if connect was asked for, and no engine and no handle otherwise
ConstructConnects ==
    (last.op = "construct" /\ last.pathArg \in FileSystem
                           /\ last.raised = "none")
        => IF last.connectArg
           THEN /\ Connected
                /\ obj = "live"
                /\ CountOps(last.events, "start_matlab") = 1
                /\ CountOps(last.events, "load_system") = 1
                /\ AllOk(last.events)
                /\ Len(engines) = 1
                /\ engine = 1
                /\ engines[1].running
                /\ engines[1].loaded = last.pathArg.stem
           ELSE /\ ~Connected
                /\ obj = "live"
                /\ last.events = << >>
                /\ engines = << >>

ConstructConnectsWitness ==
    /\ last.op = "construct"
    /\ last.connectArg
    /\ last.raised = "none"
    /\ Connected

\* the text one item of a parameter dict stands for: name = value; with a
\* str value between single quotes and a number as it is written
Assignment(item) ==
    item.key \o " = "
    \o (IF item.type = "str" THEN "'" \o item.text \o "'"
        ELSE IF item.type = "int" THEN ToString(item.int) ELSE item.text)
    \o ";"

RECURSIVE Assignments(_)
Assignments(items) ==
    IF items = << >> THEN ""
    ELSE Assignment(Head(items)) \o " " \o Assignments(Tail(items))

\* C8: set_params on a session that holds a handle makes exactly one
\* engine call, an eval of the assignments of the dict in its order, and
\* returns None
SetParamsOneCommand ==
    [][(Connected /\ last'.op = "set_params")
        => /\ Len(last'.events) = 1
           /\ last'.events[1].op = "eval"
           /\ last'.events[1].eng = engine
           /\ last'.events[1].arg = Assignments(last'.params)
           /\ (last'.params = <<ParamKp, ParamMode>>
                 => last'.events[1].arg = "Kp = 1.5; mode = 'auto'; ")
           /\ (last'.events[1].ok => last'.raised = "none" /\ last'.ret = "None")
       ]_vars

SetParamsOneCommandWitness ==
    /\ last.op = "set_params"
    /\ Connected
    /\ last.params = <<ParamKp, ParamMode>>
    /\ last.raised = "none"
    /\ Len(last.events) = 1

\* the names a run read successfully, and the names it tried to bind
ReadNames(evs) ==
    {evs[i].arg : i \in {j \in 1..Len(evs) : evs[j].op = "workspace" /\ evs[j].ok}}

BindAttempts(evs) == SelectSeq(Tail(evs), LAMBDA ev : ev.op = "eval")

\* C9: in a run whose simulation command succeeded, failures of the bind or
\* the read of some names do not make run raise, every name of outvars is
\* still tried, and the keys of the result are the names that were read
RunRecoversPerName ==
    [][(Connected /\ last'.op = "run" /\ last'.events[1].ok)
        => /\ last'.raised = "none"
           /\ last'.ret = "dict"
           /\ Len(BindAttempts(last'.events)) = Len(outvars)
           /\ \A i \in 1..Len(outvars) :
                 BindAttempts(last'.events)[i].arg
                     = outvars[i] \o " = out." \o outvars[i] \o ";"
           /\ Range(last'.keys) = ReadNames(last'.events)
           /\ Cardinality(Range(last'.keys)) = Len(last'.keys)]_vars

RunRecoversPerNameWitness ==
    /\ last.op = "run"
    /\ Connected
    /\ outvars = <<"tout", "y">>
    /\ last.keys = <<"tout">>
    /\ last.raised = "none"
    /\ \E i \in 1..Len(last.events) :
          last.events[i].arg = "y = out.y;" /\ ~last.events[i].ok

\* the engine calls the retrieval of one name makes when its bind fails,
\* and when it does not
NameEvents(n, id, bound) ==
    IF bound THEN {<<[op |-> "eval", eng |-> id, arg |-> n \o " = out." \o n \o ";", ok |-> TRUE],
                     [op |-> "workspace", eng |-> id, arg |-> n, ok |-> b]>> : b \in BOOLEAN}
    ELSE {<<[op |-> "eval", eng |-> id, arg |-> n \o " = out." \o n \o ";", ok |-> FALSE]>>}

\* evs is, name after name of ns, a bind followed by a read made only if
\* the bind succeeded
RECURSIVE RetrievalInTurn(_, _, _)
RetrievalInTurn(evs, ns, id) ==
    IF ns = << >> THEN evs = << >>
    ELSE /\ evs # << >>
         /\ LET k == IF Head(evs).ok THEN 2 ELSE 1
            IN /\ Len(evs) >= k
               /\ SubSeq(evs, 1, k) \in NameEvents(Head(ns), id, Head(evs).ok)
               /\ RetrievalInTurn(SubSeq(evs, k + 1, Len(evs)), Tail(ns), id)

\* C10: a run on a session that holds a handle first submits the one
\* simulation command, with start and stop as the StartTime and StopTime
\* texts, and then, if that succeeded, retrieves each name of outvars once
\* and in turn
RunCommandThenOutputs ==
    [][(Connected /\ last'.op = "run")
        => /\ last'.events # << >>
           /\ last'.events[1].op = "eval"
           /\ last'.events[1].eng = engine
           /\ last'.events[1].arg =
                 "\n        set_param(model, 'StartTime', '"
                 \o ToString(last'.start) \o "', 'StopTime', '"
                 \o ToString(last'.stop)
                 \o "');\n        out = sim(model);\n        "
           /\ \A i \in 2..Len(last'.events) :
                 last'.events[i].arg # last'.events[1].arg
           /\ IF last'.events[1].ok
              THEN RetrievalInTurn(Tail(last'.events), outvars, engine)
              ELSE Len(last'.events) = 1]_vars

RunCommandThenOutputsWitness ==
    /\ last.op = "run"
    /\ Connected
    /\ last.start = 5
    /\ last.stop = 10
    /\ Len(outvars) = 3
    /\ Len(last.events) = 5
    /\ last.ret = "dict"

\* C11: a run whose simulation command fails raises the engine's error,
\* retrieves no output and returns no mapping; a set_params whose command
\* fails raises the engine's error; either command was submitted once
CommandFailurePropagates ==
    [][(Connected /\ last'.op \in {"run", "set_params"}
                  /\ last'.events # << >> /\ ~last'.events[1].ok)
        => /\ last'.raised = "EngineError"
           /\ last'.ret = "raise"
           /\ last'.keys = << >>
           /\ Len(last'.events) = 1
           /\ last'.events[1].op = "eval"
           /\ CountOps(last'.events, "workspace") = 0]_vars

CommandFailurePropagatesWitness ==
    /\ last.op = "run"
    /\ Connected
    /\ Len(outvars) >= 2
    /\ last.events # << >>
    /\ ~last.events[1].ok
    /\ last.raised = "EngineError"

\* C12: set_params and run called on a session without a connection, one
\* never connected or one on which disconnect() has just returned, raise,
\* have no command carried out by an engine, and run returns no mapping
CallsNeedConnection ==
    [][((~Connected \/ (last.op = "disconnect" /\ last.raised = "none"))
          /\ last'.op \in {"set_params", "run"})
        => /\ last'.raised # "none"
           /\ last'.ret = "raise"
           /\ \A i \in 1..Len(last'.events) : ~last'.events[i].ok
           /\ last'.keys = << >>]_vars

\* C13: a live session has at most one running engine, and an engine it
\* started is running exactly when it is the one the handle refers to
OneOwnedEngine ==
    obj = "live"
        => /\ Cardinality({i \in DOMAIN engines : engines[i].running}) <= 1
           /\ \A i \in DOMAIN engines :
                 engines[i].running <=> (Connected /\ engine = i)

\* the four engine calls of a connect that returns, on engine id
ConnectSteps(id, p, nm) ==
    << [op |-> "start_matlab", eng |-> id, arg |-> "", ok |-> TRUE],
       [op |-> "addpath", eng |-> id, arg |-> p.parent, ok |-> TRUE],
       [op |-> "eval", eng |-> id, arg |-> "model = '" \o nm \o "';", ok |-> TRUE],
       [op |-> "load_system", eng |-> id, arg |-> nm, ok |-> TRUE] >>

\* a Connect step on a session without a handle
ConnectsFromDisconnected == ~Connected /\ last'.op = "connect"

\* a Run step that submits its simulation command
RunSubmits == Connected /\ last'.op = "run" /\ last'.events # << >>

\* the engine the handle refers to has carried out the command that binds
\* the model-name variable, and has the model loaded
ModelReady ==
    /\ engines[engine].modelVar = "model = '" \o name \o "';"
    /\ engines[engine].loaded = name

\* C14 as stated: a Connect on a session without a handle that returns has
\* made the four calls once each and in order, and in any sequence of calls
\* a Run submits its simulation command to an engine with the model-name
\* variable bound and the model loaded
ConnectStepsAlways ==
    /\ [][(ConnectsFromDisconnected /\ last'.raised = "none")
            => last'.events = ConnectSteps(Len(engines) + 1, path, name)]_vars
    /\ [][RunSubmits => ModelReady]_vars

\* C14 amended: a Connect on a session without a handle that returns has
\* made the four calls once each and in order on a new engine, which the
\* handle then refers to; a Connect that raises has made a prefix of them,
\* the last one failing; and a Run whose engine was loaded by its Connect
\* submits its simulation command to that engine with the model-name
\* variable bound and the model loaded
ConnectStepsInOrder ==
    /\ [][(ConnectsFromDisconnected /\ last'.raised = "none")
            => /\ last'.events = ConnectSteps(Len(engines) + 1, path, name)
               /\ engine' = Len(engines) + 1
               /\ Connected']_vars
    /\ [][(ConnectsFromDisconnected /\ last'.raised # "none")
            => /\ Len(last'.events) \in 1..4
               /\ \A i \in 1..Len(last'.events) :
                     /\ last'.events[i].op
                          = ConnectSteps(0, path, name)[i].op
                     /\ last'.events[i].arg
                          = ConnectSteps(0, path, name)[i].arg
                     /\ last'.events[i].ok <=> i < Len(last'.events)]_vars
    /\ [][(RunSubmits /\ engines[engine].loads = 1)
            => /\ ModelReady
               /\ last'.events[1].eng = engine
               /\ engines'[engine] = engines[engine]]_vars

ConnectStepsInOrderWitness ==
    /\ last.op = "run"
    /\ Connected
    /\ last.events # << >>
    /\ last.events[1].ok
    /\ engines[engine].loads = 1
    /\ engines[engine].loaded = "knee"

\* C15: set_params and run, returning or raising, leave the handle, the
\* model name, the model path and outvars as they were and add no attribute
\* to the session; the keys of a run's result are the names read in that
\* run, whatever an earlier run returned
CallsLeaveSessionUnchanged ==
    [][(last'.op \in {"set_params", "run"})
        => /\ attrs' = attrs
           /\ engine' = engine
           /\ Connected' = Connected
           /\ name' = name
           /\ path' = path
           /\ outvars' = outvars
           /\ obj' = obj
           /\ (last'.op = "set_params" => last'.keys = << >>)
           /\ (last'.op = "run"
                 => /\ Range(last'.keys) = ReadNames(last'.events)
                    /\ \A n \in Range(outvars) :
                          (\E i \in 1..Len(last'.events) :
                              /\ last'.events[i].arg \in {n, n \o " = out." \o n \o ";"}
                              /\ ~last'.events[i].ok)
                            => n \notin Range(last'.keys))]_vars

CallsLeaveSessionUnchangedWitness ==
    /\ last.op = "run"
    /\ Connected
    /\ last.ret = "dict"
    /\ outvars = <<"e", "tout", "y">>
    /\ last.keys = <<"e">>

\* C16: a Connect on a session without a handle whose start_matlab fails
\* leaves the session without a handle and starts no engine; one that fails
\* at a later call raises and leaves the started engine held by the handle;
\* and a Disconnect that follows such a Connect shuts that engine down
FailedConnectNoLeak ==
    /\ [][(ConnectsFromDisconnected /\ ~last'.events[1].ok)
            => /\ last'.raised = "EngineError"
               /\ ~Connected'
               /\ engines' = engines]_vars
    /\ [][(ConnectsFromDisconnected /\ last'.events[1].ok
                                    /\ ~AllOk(last'.events))
            => /\ last'.raised = "EngineError"
               /\ Connected'
               /\ engine' = Len(engines')
               /\ engines'[engine'].running]_vars
    /\ [][(last.op = "connect" /\ last.raised = "EngineError" /\ Connected
             /\ last'.op = "disconnect" /\ last'.raised = "none")
            => /\ ~engines'[engine].running
               /\ engines'[engine].quits = 1
               /\ ~Connected']_vars

====
